---- MODULE Spec2Model ----
(***************************************************************************)
(* Model of the background game scanner of cinny-desktop                   *)
(* (src-tauri/src/game_scanner.rs, state constructed in main.rs).          *)
(*                                                                         *)
(* Two specifications:                                                     *)
(*   Spec      - the scan loop task of start() interleaved with the        *)
(*               set_scanner_enabled command;                              *)
(*   SpecMatch - the process/catalog matching of one scan cycle as a pure  *)
(*               function, applied to inputs drawn in the initial state.   *)
(*                                                                         *)
(* Strings that the code trims or compares ignoring case (executable and   *)
(* process names) are sequences of one-character strings; strings that are *)
(* only copied or compared exactly (ids, display names, os tags) are TLA+  *)
(* strings.  Option<T> is a sequence of length 0 (None) or 1 (Some).       *)
(***************************************************************************)
EXTENDS Naturals, Sequences, FiniteSets

VARIABLES
    watch_list,            \* ScannerState.watch_list
    current_game,          \* ScannerState.current_game : Option<String>
    is_enabled,            \* ScannerState.is_enabled
    permit,                \* ScannerState.notify : the stored permit of the Notify
    woken,                 \* ScannerState.notify : the registered waiter has been notified
    pc,                    \* position of the task spawned by start()
    fetch_retry_interval,  \* local of the fetch loop, seconds; 0 once the loop is left
    remote,                \* the list the remote endpoint serves
    procs,                 \* sys : process names of the last refresh, in enumeration order
    followed,              \* history: how far the cycles' results have followed Scenario
    events,                \* history: payloads passed to app.emit_all
    emit_result,           \* history: Result of the emit_all call of the last cycle, Option<bool>
    cmd_pc,                \* position of the running set_scanner_enabled call
    cmd_arg,               \* its `enabled` argument : Option<bool>
    flips,                 \* history: number of assignments to is_enabled
    wakes,                 \* history: number of notify_one calls
    m_list,                \* SpecMatch: catalog given to the matching
    m_procs,               \* SpecMatch: process names given to the matching
    m_out                  \* SpecMatch: result of the matching, Option

vars == <<watch_list, current_game, is_enabled, permit, woken, pc,
          fetch_retry_interval, remote, procs, followed, events, emit_result,
          cmd_pc, cmd_arg, flips, wakes, m_list, m_procs, m_out>>

scanVars == <<watch_list, current_game, is_enabled, permit, woken, pc,
              fetch_retry_interval, remote, procs, followed, events, emit_result,
              cmd_pc, cmd_arg, flips, wakes>>

matchVars == <<m_list, m_procs, m_out>>

-----------------------------------------------------------------------------
(* Bounds of the model *)

MaxEvents == 3

MaxFlips == 3

-----------------------------------------------------------------------------
(* Option<T> *)

None == <<>>

Some(x) == <<x>>

Min(S) == CHOOSE x \in S : \A y \in S : x <= y

-----------------------------------------------------------------------------
(* Strings as character sequences *)

UpperCase == <<"A","B","C","D","E","F","G","H","I","J","K","L","M",
               "N","O","P","Q","R","S","T","U","V","W","X","Y","Z">>

LowerCase == <<"a","b","c","d","e","f","g","h","i","j","k","l","m",
               "n","o","p","q","r","s","t","u","v","w","x","y","z">>

\* The lower-case letter of every upper-case ASCII letter.
AsciiLower ==
    [c \in {UpperCase[i] : i \in 1..26} |->
        LowerCase[CHOOSE i \in 1..26 : UpperCase[i] = c]]

to_ascii_lowercase(c) == IF c \in DOMAIN AsciiLower THEN AsciiLower[c] ELSE c

eq_ignore_ascii_case(a, b) ==
    /\ Len(a) = Len(b)
    /\ \A i \in 1..Len(a) : to_ascii_lowercase(a[i]) = to_ascii_lowercase(b[i])

ends_with(s, pat) ==
    /\ Len(s) >= Len(pat)
    /\ SubSeq(s, Len(s) - Len(pat) + 1, Len(s)) = pat

RECURSIVE trim_end_matches(_, _)
trim_end_matches(s, pat) ==
    IF ends_with(s, pat)
    THEN trim_end_matches(SubSeq(s, 1, Len(s) - Len(pat)), pat)
    ELSE s

DotExe == <<".","e","x","e">>

-----------------------------------------------------------------------------
(* Executable and process names used as inputs *)

n_game1 == <<"g","a","m","e","1">>

n_Game1_EXE == <<"G","a","m","e","1",".","E","X","E">>

n_Game1_exe == <<"G","a","m","e","1",".","e","x","e">>

n_foo == <<"f","o","o">>

n_Foo_exe == <<"F","o","o",".","e","x","e">>

n_Foo_EXE == <<"F","o","o",".","E","X","E">>

n_foo_exe_exe == <<"f","o","o",".","e","x","e",".","e","x","e">>

n_bar == <<"b","a","r">>

n_Calculator == <<"C","a","l","c","u","l","a","t","o","r">>

-----------------------------------------------------------------------------
(* DetectableGame / GameExecutable values *)

GameExecutable(os, name) == [os |-> os, name |-> name]

DetectableGame(id, name, executables) ==
    [id |-> id, name |-> name, executables |-> executables]

\* The entry pushed by fetch_detectable_games.
MockGame ==
    DetectableGame("mock_calc_123", "Calculator",
                   Some(<<GameExecutable("all", n_Calculator)>>))

G1 == DetectableGame("g1", "Game One", Some(<<GameExecutable("all", n_game1)>>))

G2 == DetectableGame("g2", "Game Two", Some(<<GameExecutable("win32", n_Foo_exe)>>))

\* Another signature with the display name of G1.
G3 == DetectableGame("g3", "Game One", Some(<<GameExecutable("linux", n_bar)>>))

GNull == DetectableGame("g0", "No Executables", None)

\* Lists the remote endpoint may serve.
RemoteLists == { <<>>, <<GNull, G1, G2, G3>> }

\* Process lists a refresh may return (enumeration order is the OS's).
ProcLists == { <<>>, <<n_game1>>, <<n_Game1_EXE>>, <<n_foo>>, <<n_bar>>,
               <<n_game1, n_foo>>, <<n_foo, n_game1>> }

-----------------------------------------------------------------------------
(* fetch_detectable_games: the body after a successful response *)

fetch_detectable_games_noPush(games) == games

fetch_detectable_games(games) == Append(games, MockGame)

-----------------------------------------------------------------------------
(* Matching of one scan cycle, lines 123-152 *)

\* clean_exe.eq_ignore_ascii_case(clean_proc)
Matches(exe_name, process_name) ==
    eq_ignore_ascii_case(trim_end_matches(exe_name, DotExe),
                         trim_end_matches(process_name, DotExe))

\* Index of the first executable of `game` matching the process, 0 if none.
FirstExe(game, process_name) ==
    IF game.executables = None THEN 0
    ELSE LET executables == game.executables[1]
             hits == { k \in 1..Len(executables) :
                         Matches(executables[k].name, process_name) }
         IN  IF hits = {} THEN 0 ELSE Min(hits)

\* Index of the first game of the list with a matching executable, 0 if none.
FirstGame(list, process_name) ==
    LET hits == { j \in 1..Len(list) : FirstExe(list[j], process_name) # 0 }
    IN  IF hits = {} THEN 0 ELSE Min(hits)

Detect_cleanExe(list, processes) ==
    LET hits == { i \in 1..Len(processes) : FirstGame(list, processes[i]) # 0 }
    IN  IF hits = {} THEN [name |-> None, exe |-> None]
        ELSE LET i == Min(hits)
                 game == list[FirstGame(list, processes[i])]
                 exe == game.executables[1][FirstExe(game, processes[i])]
             IN  [name |-> Some(game.name),
                  exe |-> Some(trim_end_matches(exe.name, DotExe))]

\* (detected_name, detected_exe) after the three nested loops: the outer loop
\* runs over the processes, the inner ones over the list and the executables.
Detect(list, processes) ==
    LET hits == { i \in 1..Len(processes) : FirstGame(list, processes[i]) # 0 }
    IN  IF hits = {} THEN [name |-> None, exe |-> None]
        ELSE LET i == Min(hits)
                 game == list[FirstGame(list, processes[i])]
                 exe == game.executables[1][FirstExe(game, processes[i])]
             IN  [name |-> Some(game.name), exe |-> Some(exe.name)]

-----------------------------------------------------------------------------
(* Emission on state changes, lines 154-195 *)

GameActivity(name, executable_name, is_running) ==
    [name |-> name, executable_name |-> executable_name, is_running |-> is_running]

Emitted_stopOnSwitch(previous_game, detected) ==
    IF previous_game = None /\ detected.name # None
    THEN << GameActivity(detected.name[1], detected.exe, TRUE) >>
    ELSE IF previous_game # None /\ detected.name = None
    THEN << GameActivity(previous_game[1], None, FALSE) >>
    ELSE IF previous_game # None /\ detected.name # None
            /\ previous_game[1] # detected.name[1]
    THEN << GameActivity(previous_game[1], None, FALSE),
            GameActivity(detected.name[1], detected.exe, TRUE) >>
    ELSE << >>

Emitted_switchAsStopped(previous_game, detected) ==
    IF previous_game = None /\ detected.name # None
    THEN << GameActivity(detected.name[1], detected.exe, TRUE) >>
    ELSE IF previous_game # None /\ detected.name = None
    THEN << GameActivity(previous_game[1], None, FALSE) >>
    ELSE IF previous_game # None /\ detected.name # None
            /\ previous_game[1] # detected.name[1]
    THEN << GameActivity(previous_game[1], None, FALSE) >>
    ELSE << >>

\* The payloads the match at line 155 passes to emit_all: none or one.
Emitted(previous_game, detected) ==
    IF previous_game = None /\ detected.name # None
    THEN << GameActivity(detected.name[1], detected.exe, TRUE) >>
    ELSE IF previous_game # None /\ detected.name = None
    THEN << GameActivity(previous_game[1], None, FALSE) >>
    ELSE IF previous_game # None /\ detected.name # None
            /\ previous_game[1] # detected.name[1]
    THEN << GameActivity(detected.name[1], detected.exe, TRUE) >>
    ELSE << >>

-----------------------------------------------------------------------------
(* History of detection results *)

\* The detection results d0 .. d4 of the transition scenario.
Scenario == << None, Some("Game One"), Some("Game One"), Some("Game Two"), None >>

Departed == Len(Scenario) + 1

\* `n` cycles have run and their results were the first n of Scenario
\* (n <= Len(Scenario)), or else the results departed from it (Departed):
\* the value after one more cycle with result `detected_name`.
Followed(n, detected_name) ==
    IF n < Len(Scenario) /\ detected_name = Scenario[n + 1]
    THEN n + 1
    ELSE Departed

-----------------------------------------------------------------------------
(* tokio::sync::Notify, as used through state.notify *)

\* The task is suspended in a notified() future registered as a waiter.
Waiting == pc \in {"idle_wait", "timed_wait"}

NotifyOne_noPermit ==
    IF Waiting /\ ~woken
    THEN woken' = TRUE /\ UNCHANGED permit
    ELSE UNCHANGED <<permit, woken>>

\* notify_one(): release the waiting task if one is registered and not yet
\* released; otherwise store the single permit (an already stored permit stays one).
NotifyOne ==
    IF Waiting /\ ~woken
    THEN woken' = TRUE /\ UNCHANGED permit
    ELSE permit' = TRUE /\ UNCHANGED woken

-----------------------------------------------------------------------------
(* Initial state: ScannerState as built in main(), the task at its first statement *)

Init ==
    /\ watch_list = <<>>
    /\ current_game = None
    /\ is_enabled = FALSE
    /\ permit = FALSE
    /\ woken = FALSE
    /\ pc = "fetch"
    /\ fetch_retry_interval = 5
    /\ remote \in RemoteLists
    /\ procs = <<>>
    /\ followed = 0
    /\ events = <<>>
    /\ emit_result = None
    /\ cmd_pc = "idle"
    /\ cmd_arg = None
    /\ flips = 0
    /\ wakes = 0
    /\ m_list = <<>>
    /\ m_procs = <<>>
    /\ m_out = None

-----------------------------------------------------------------------------
(* set_scanner_enabled, lines 40-49 *)

is_enabled_locked_dropEarly == cmd_pc = "locked"

\* The MutexGuard `is_enabled` of a running call is alive (line 42 to line 49).
is_enabled_locked == cmd_pc \in {"locked", "assigned"}

\* Line 42: the command is invoked with `enabled` and takes the lock.
CmdLock ==
    /\ cmd_pc = "idle"
    /\ \E enabled \in BOOLEAN :
          /\ enabled # is_enabled => flips < MaxFlips
          /\ cmd_arg' = Some(enabled)
    /\ cmd_pc' = "locked"
    /\ UNCHANGED <<watch_list, current_game, is_enabled, permit, woken, pc,
                   fetch_retry_interval, remote, procs, followed, events, emit_result,
                   flips, wakes>>
    /\ UNCHANGED matchVars

CmdCompare_alwaysNotify ==
    /\ cmd_pc = "locked"
    /\ is_enabled' = cmd_arg[1]
    /\ flips' = IF is_enabled # cmd_arg[1] THEN flips + 1 ELSE flips
    /\ cmd_pc' = "assigned"
    /\ UNCHANGED <<watch_list, current_game, permit, woken, pc,
                   fetch_retry_interval, remote, procs, followed, events, emit_result,
                   cmd_arg, wakes>>
    /\ UNCHANGED matchVars

\* Lines 43-44: compare; assign when different, otherwise return (line 49).
CmdCompare ==
    /\ cmd_pc = "locked"
    /\ IF is_enabled # cmd_arg[1]
       THEN /\ is_enabled' = cmd_arg[1]
            /\ flips' = flips + 1
            /\ cmd_pc' = "assigned"
            /\ UNCHANGED cmd_arg
       ELSE /\ cmd_pc' = "idle"
            /\ cmd_arg' = None
            /\ UNCHANGED <<is_enabled, flips>>
    /\ UNCHANGED <<watch_list, current_game, permit, woken, pc,
                   fetch_retry_interval, remote, procs, followed, events, emit_result, wakes>>
    /\ UNCHANGED matchVars

CmdNotify_clearGame ==
    /\ cmd_pc = "assigned"
    /\ NotifyOne
    /\ wakes' = wakes + 1
    /\ cmd_pc' = "idle"
    /\ cmd_arg' = None
    /\ current_game' = IF is_enabled THEN current_game ELSE None
    /\ UNCHANGED <<watch_list, is_enabled, pc,
                   fetch_retry_interval, remote, procs, followed, events, emit_result, flips>>
    /\ UNCHANGED matchVars

\* Lines 47-49: notify_one, then the guard is dropped and the call returns.
CmdNotify ==
    /\ cmd_pc = "assigned"
    /\ NotifyOne
    /\ wakes' = wakes + 1
    /\ cmd_pc' = "idle"
    /\ cmd_arg' = None
    /\ UNCHANGED <<watch_list, current_game, is_enabled, pc,
                   fetch_retry_interval, remote, procs, followed, events, emit_result, flips>>
    /\ UNCHANGED matchVars

-----------------------------------------------------------------------------
(* start(): the fetch loop, lines 78-97 *)

\* Line 82 returns Ok(games): lines 83-86.  fetch_retry_interval is read
\* nowhere after the break, and the model forgets its value here.
FetchOk ==
    /\ pc = "fetch"
    /\ watch_list' = fetch_detectable_games(remote)
    /\ fetch_retry_interval' = 0
    /\ pc' = "check"
    /\ UNCHANGED <<current_game, is_enabled, permit, woken, remote, procs,
                   followed, events, emit_result, cmd_pc, cmd_arg, flips, wakes>>
    /\ UNCHANGED matchVars

FetchErr_giveUp ==
    /\ pc = "fetch"
    /\ fetch_retry_interval' = 0
    /\ pc' = "check"
    /\ UNCHANGED <<watch_list, current_game, is_enabled, permit, woken, remote,
                   procs, followed, events, emit_result, cmd_pc, cmd_arg, flips, wakes>>
    /\ UNCHANGED matchVars

\* Line 82 returns Err: lines 88-90, the task sleeps fetch_retry_interval.
FetchErr ==
    /\ pc = "fetch"
    /\ pc' = "sleep"
    /\ UNCHANGED <<watch_list, current_game, is_enabled, permit, woken,
                   fetch_retry_interval, remote, procs, followed, events, emit_result,
                   cmd_pc, cmd_arg, flips, wakes>>
    /\ UNCHANGED matchVars

\* Lines 91-94 after the sleep, then back to line 82.
BackoffDone ==
    /\ pc = "sleep"
    /\ fetch_retry_interval' =
          IF fetch_retry_interval < 60
          THEN fetch_retry_interval * 2
          ELSE fetch_retry_interval
    /\ pc' = "fetch"
    /\ UNCHANGED <<watch_list, current_game, is_enabled, permit, woken, remote,
                   procs, followed, events, emit_result, cmd_pc, cmd_arg, flips, wakes>>
    /\ UNCHANGED matchVars

-----------------------------------------------------------------------------
(* start(): the scan loop, lines 101-204 *)

LoopCheck_ignoreFlag ==
    /\ pc = "check"
    /\ ~is_enabled_locked
    /\ pc' = "scan"
    /\ UNCHANGED <<watch_list, current_game, is_enabled, permit, woken,
                   fetch_retry_interval, remote, procs, followed, events, emit_result,
                   cmd_pc, cmd_arg, flips, wakes>>
    /\ UNCHANGED matchVars

\* Line 103: read is_enabled under its lock; lines 105-111 or 113.
LoopCheck ==
    /\ pc = "check"
    /\ ~is_enabled_locked
    /\ pc' = IF is_enabled THEN "scan" ELSE "idle"
    /\ UNCHANGED <<watch_list, current_game, is_enabled, permit, woken,
                   fetch_retry_interval, remote, procs, followed, events, emit_result,
                   cmd_pc, cmd_arg, flips, wakes>>
    /\ UNCHANGED matchVars

\* Line 108, first poll of notified(): a stored permit is consumed and the
\* future completes at once (lines 109-110); otherwise the task is registered.
LoopIdle ==
    /\ pc = "idle"
    /\ IF permit
       THEN permit' = FALSE /\ pc' = "check"
       ELSE UNCHANGED permit /\ pc' = "idle_wait"
    /\ UNCHANGED <<watch_list, current_game, is_enabled, woken,
                   fetch_retry_interval, remote, procs, followed, events, emit_result,
                   cmd_pc, cmd_arg, flips, wakes>>
    /\ UNCHANGED matchVars

\* Line 108 completes after a notify_one: lines 109-110.
LoopIdleWake ==
    /\ pc = "idle_wait"
    /\ woken
    /\ woken' = FALSE
    /\ pc' = "check"
    /\ UNCHANGED <<watch_list, current_game, is_enabled, permit,
                   fetch_retry_interval, remote, procs, followed, events, emit_result,
                   cmd_pc, cmd_arg, flips, wakes>>
    /\ UNCHANGED matchVars

LoopScan_keepOnNone ==
    /\ pc = "scan"
    /\ procs' \in ProcLists
    /\ LET previous_game == current_game
           detected == Detect(watch_list, procs')
           emitted == Emitted(previous_game, detected)
       IN  /\ Len(events) + Len(emitted) <= MaxEvents
           /\ events' = events \o emitted
           /\ \E ok \in BOOLEAN :
                 emit_result' = IF emitted = <<>> THEN None ELSE Some(ok)
           /\ current_game' = IF detected.name = None THEN current_game
                              ELSE detected.name
           /\ followed' = Followed(followed, detected.name)
    /\ pc' = "wait"
    /\ UNCHANGED <<watch_list, is_enabled, permit, woken,
                   fetch_retry_interval, remote,
                   cmd_pc, cmd_arg, flips, wakes>>
    /\ UNCHANGED matchVars

LoopScan_retryOnFailure ==
    /\ pc = "scan"
    /\ procs' \in ProcLists
    /\ LET previous_game == current_game
           detected == Detect(watch_list, procs')
           emitted == Emitted(previous_game, detected)
       IN  /\ Len(events) + Len(emitted) <= MaxEvents
           /\ events' = events \o emitted
           /\ \E ok \in BOOLEAN :
                 /\ emit_result' = IF emitted = <<>> THEN None ELSE Some(ok)
                 /\ current_game' = IF emitted # <<>> /\ ~ok THEN current_game
                                    ELSE detected.name
           /\ followed' = Followed(followed, detected.name)
    /\ pc' = "wait"
    /\ UNCHANGED <<watch_list, is_enabled, permit, woken,
                   fetch_retry_interval, remote,
                   cmd_pc, cmd_arg, flips, wakes>>
    /\ UNCHANGED matchVars

\* Lines 116-198, one scan cycle: refresh the process list, snapshot, match,
\* emit on a change, store detected_name.  The cycle shares nothing with
\* set_scanner_enabled (it reads neither is_enabled nor notify), so it is one step.
\* emit_all may fail; its Result is discarded (let _ =) and only recorded here.
LoopScan ==
    /\ pc = "scan"
    /\ procs' \in ProcLists
    /\ LET previous_game == current_game
           detected == Detect(watch_list, procs')
           emitted == Emitted(previous_game, detected)
       IN  /\ Len(events) + Len(emitted) <= MaxEvents
           /\ events' = events \o emitted
           /\ \E ok \in BOOLEAN :
                 emit_result' = IF emitted = <<>> THEN None ELSE Some(ok)
           /\ current_game' = detected.name
           /\ followed' = Followed(followed, detected.name)
    /\ pc' = "wait"
    /\ UNCHANGED <<watch_list, is_enabled, permit, woken,
                   fetch_retry_interval, remote,
                   cmd_pc, cmd_arg, flips, wakes>>
    /\ UNCHANGED matchVars

LoopWait_keepPermit ==
    /\ pc = "wait"
    /\ pc' = IF permit THEN "check" ELSE "timed_wait"
    /\ UNCHANGED <<watch_list, current_game, is_enabled, permit, woken,
                   fetch_retry_interval, remote, procs, followed, events, emit_result,
                   cmd_pc, cmd_arg, flips, wakes>>
    /\ UNCHANGED matchVars

\* Line 201, first poll of timeout(15s, notified()): a stored permit is
\* consumed and the wait returns Ok at once; otherwise the task is registered.
LoopWait ==
    /\ pc = "wait"
    /\ IF permit
       THEN permit' = FALSE /\ pc' = "check"
       ELSE UNCHANGED permit /\ pc' = "timed_wait"
    /\ UNCHANGED <<watch_list, current_game, is_enabled, woken,
                   fetch_retry_interval, remote, procs, followed, events, emit_result,
                   cmd_pc, cmd_arg, flips, wakes>>
    /\ UNCHANGED matchVars

\* Line 201 returns Ok after a notify_one: line 202.
LoopWaitWake ==
    /\ pc = "timed_wait"
    /\ woken
    /\ woken' = FALSE
    /\ pc' = "check"
    /\ UNCHANGED <<watch_list, current_game, is_enabled, permit,
                   fetch_retry_interval, remote, procs, followed, events, emit_result,
                   cmd_pc, cmd_arg, flips, wakes>>
    /\ UNCHANGED matchVars

\* Line 201 returns Err(Elapsed) after 15 seconds without a notification.
LoopWaitTimeout ==
    /\ pc = "timed_wait"
    /\ ~woken
    /\ pc' = "check"
    /\ UNCHANGED <<watch_list, current_game, is_enabled, permit, woken,
                   fetch_retry_interval, remote, procs, followed, events, emit_result,
                   cmd_pc, cmd_arg, flips, wakes>>
    /\ UNCHANGED matchVars

-----------------------------------------------------------------------------
(* The scanner: the command and the task interleaved *)

Next ==
    \/ CmdLock
    \/ CmdCompare
    \/ CmdNotify
    \/ FetchOk
    \/ FetchErr
    \/ BackoffDone
    \/ LoopCheck
    \/ LoopIdle
    \/ LoopIdleWake
    \/ LoopScan
    \/ LoopWait
    \/ LoopWaitWake
    \/ LoopWaitTimeout

Spec == Init /\ [][Next]_vars

-----------------------------------------------------------------------------
-----------------------------------------------------------------------------
(* The scanner under fair scheduling *)

\* The task is a spawned tokio task and is polled whenever it can go on from
\* the read of the flag or from one of its waits; a blocked lock() at line
\* 103 is granted eventually (strong fairness: the lock is free only between
\* calls); a set_scanner_enabled call that has started runs to its end.
\* Nothing is assumed of the fetch, of new calls or of the 15 s timer.
Fairness ==
    /\ SF_vars(LoopCheck)
    /\ WF_vars(LoopIdle)
    /\ WF_vars(LoopIdleWake)
    /\ WF_vars(LoopWait)
    /\ WF_vars(LoopWaitWake)
    /\ WF_vars(CmdCompare)
    /\ WF_vars(CmdNotify)

SpecFair == Spec /\ Fairness

-----------------------------------------------------------------------------
(* The matching of lines 123-152 alone, on inputs drawn in the initial state *)

OsTags == {"all", "win32", "darwin"}

MatchNames == { n_game1, n_Game1_EXE, n_Game1_exe, n_foo, n_Foo_exe,
                n_Foo_EXE, n_foo_exe_exe, n_Calculator }

MatchLists ==
    { << DetectableGame("a", "Alpha", Some(<<GameExecutable(os, n)>>)) >> :
         os \in OsTags, n \in MatchNames }
    \cup { <<GNull>>, <<G1, G2>>, <<G2, G1>>, <<GNull, G1>> }

MatchProcs ==
    { <<p>> : p \in MatchNames }
    \cup { <<>>, <<n_game1, n_foo>>, <<n_foo, n_game1>> }

InitMatch ==
    /\ watch_list = <<>>
    /\ current_game = None
    /\ is_enabled = FALSE
    /\ permit = FALSE
    /\ woken = FALSE
    /\ pc = "fetch"
    /\ fetch_retry_interval = 5
    /\ remote = <<>>
    /\ procs = <<>>
    /\ followed = 0
    /\ events = <<>>
    /\ emit_result = None
    /\ cmd_pc = "idle"
    /\ cmd_arg = None
    /\ flips = 0
    /\ wakes = 0
    /\ m_list \in MatchLists
    /\ m_procs \in MatchProcs
    /\ m_out = None

\* Lines 123-152 applied to the given list and processes.
MatchApply ==
    /\ m_out = None
    /\ m_out' = Some(Detect(m_list, m_procs))
    /\ UNCHANGED <<m_list, m_procs>>
    /\ UNCHANGED scanVars

NextMatch == MatchApply

SpecMatch == InitMatch /\ [][NextMatch]_vars

-----------------------------------------------------------------------------
(* Steps named by the claims *)

\* A step of the running set_scanner_enabled call.
CmdStep == cmd_pc' # cmd_pc

\* The task reads is_enabled at line 103.
ReadStep == pc = "check" /\ pc' # "check"

\* The task runs one scan cycle, lines 116-198.
ScanStep == pc = "scan" /\ pc' = "wait"

AwaitingCatalog == pc \in {"fetch", "sleep"}

started(name) == <<TRUE, name>>

stopped(name) == <<FALSE, name>>

\* An emitted payload as started(x) / stopped(x).
Kind(e) == <<e.is_running, e.name>>

Kinds(es) == [i \in 1..Len(es) |-> Kind(es[i])]

\* The payloads emitted by the step.
NewEvents == SubSeq(events', Len(events) + 1, Len(events'))

-----------------------------------------------------------------------------
\* C1: a set_scanner_enabled call whose argument equals the current flag
\* changes nothing: from taking the lock to returning it leaves the flag, the
\* Notify (no waiter released, no permit stored, no notify_one call), the
\* catalog and current_game as they are, and it returns without assigning.
C1_NoopCallChangesNothing ==
    [][ (/\ CmdStep
         /\ \/ cmd_pc = "idle" /\ cmd_arg' = Some(is_enabled)
            \/ cmd_pc = "locked" /\ cmd_arg = Some(is_enabled))
        => /\ is_enabled' = is_enabled
           /\ permit' = permit
           /\ woken' = woken
           /\ wakes' = wakes
           /\ flips' = flips
           /\ watch_list' = watch_list
           /\ current_game' = current_game
           /\ events' = events
           /\ cmd_pc' \in {"locked", "idle"} ]_vars

\* A call with the value already in effect is running while the scan loop
\* sits in its bounded wait.
C1_Witness ==
    /\ cmd_pc = "locked"
    /\ cmd_arg = Some(is_enabled)
    /\ is_enabled
    /\ pc = "timed_wait"
    /\ flips = 1

-----------------------------------------------------------------------------
\* C2: a call whose argument differs from the flag assigns it and calls
\* notify_one exactly once, both while the lock on the flag is held: the task
\* never reads the flag between an assignment and its notify_one, and the
\* number of notify_one calls equals the number of changes of the flag.
C2_FlipAndWakeInOneCriticalSection ==
    /\ [](wakes + (IF cmd_pc = "assigned" THEN 1 ELSE 0) = flips)
    /\ [][ /\ (is_enabled' # is_enabled) <=> (flips' = flips + 1)
           /\ flips' # flips => (flips' = flips + 1 /\ is_enabled' = cmd_arg[1])
           /\ wakes' # wakes => (wakes' = wakes + 1 /\ wakes' = flips)
           /\ wakes' # wakes => (permit' \/ woken')
           /\ ReadStep => wakes = flips ]_vars

\* The task is about to read the flag while a call has assigned it and has
\* not yet raised the wake.
C2_Witness ==
    /\ cmd_pc = "assigned"
    /\ pc = "check"
    /\ flips = wakes + 1
    /\ flips = MaxFlips

-----------------------------------------------------------------------------
C3_Transition(prev, det) ==
    IF prev = det THEN << >>
    ELSE IF prev = None THEN << started(det[1]) >>
    ELSE IF det = None THEN << stopped(prev[1]) >>
    ELSE << started(det[1]) >>

\* C3: starting from current_game = None, a scan cycle emits started(x) on
\* None -> Some(x), stopped(x) on Some(x) -> None, one started(y) and no stop
\* on Some(x) -> Some(y) with x # y, and nothing on an unchanged result; the
\* results None, Some(A), Some(A), Some(B), None give
\* [started(A), started(B), stopped(B)].
C3_EventsFollowTransitions ==
    /\ [](followed = Len(Scenario)
            => Kinds(events) = << started("Game One"), started("Game Two"),
                                  stopped("Game Two") >>)
    /\ [][ /\ ScanStep =>
                /\ followed' = Followed(followed, current_game')
                /\ Kinds(NewEvents) = C3_Transition(current_game, current_game')
                /\ SubSeq(events', 1, Len(events)) = events
           /\ ~ScanStep => events' = events ]_vars

\* The five cycles of the scenario have run.
C3_Witness ==
    /\ followed = Len(Scenario)
    /\ Len(events) = 3
    /\ current_game = None

-----------------------------------------------------------------------------
C4_ClaimedNextWait(w) == IF 2 * w > 60 THEN 60 ELSE 2 * w

\* C4: on consecutive fetch failures the waits are 5, 10, 20, 40, 60, 60, ...:
\* every wait is one of these values and the wait after a wait of w seconds
\* is min(2w, 60) seconds.
C4_BackoffDoublesCappedAt60 ==
    [][ /\ (pc = "fetch" /\ pc' = "sleep")
              => fetch_retry_interval' \in {5, 10, 20, 40, 60}
        /\ (pc = "sleep" /\ pc' = "fetch")
              => fetch_retry_interval' = C4_ClaimedNextWait(fetch_retry_interval)
      ]_vars

-----------------------------------------------------------------------------
\* C5: a failed fetch changes nothing and is retried: while the catalog is
\* awaited the catalog is empty, current_game is None, no cycle has run and
\* nothing was emitted, whatever set_scanner_enabled calls were made; after
\* every failure another fetch follows; the fetch loop is left only by a
\* successful fetch, and never entered again.
C5_FailedFetchRetriedWithoutEffect ==
    /\ [](AwaitingCatalog =>
            /\ watch_list = <<>>
            /\ current_game = None
            /\ followed = 0
            /\ events = <<>>
            /\ procs = <<>>)
    /\ [](pc = "sleep" => ENABLED BackoffDone)
    /\ [](pc = "fetch" => ENABLED FetchErr /\ ENABLED FetchOk)
    /\ [][ /\ pc = "sleep" => pc' \in {"sleep", "fetch"}
           /\ pc = "fetch" => pc' \in {"fetch", "sleep", "check"}
           /\ (pc = "fetch" /\ pc' = "sleep")
                 => UNCHANGED <<watch_list, current_game, followed, events,
                                is_enabled, permit, woken>>
           /\ (AwaitingCatalog /\ ~AwaitingCatalog')
                 => (pc = "fetch" /\ watch_list' = remote \o <<MockGame>>)
           /\ ~AwaitingCatalog => ~AwaitingCatalog' ]_vars

\* The fifth failure or a later one, with the scanner enabled meanwhile.
C5_Witness ==
    /\ pc = "sleep"
    /\ fetch_retry_interval = 80
    /\ is_enabled
    /\ cmd_pc = "idle"
    /\ wakes = 1

-----------------------------------------------------------------------------
-----------------------------------------------------------------------------
\* C7: with the signature {g1, Game One, [{all, game1}]} in the catalog and
\* the running process "Game1.EXE", the first scan cycle emits exactly one
\* event, started {name: Game One, executable_name: game1, is_running: true}.
C7_UpperCaseSuffixIsStripped ==
    [][ ( /\ ScanStep
          /\ followed = 0
          /\ \E j \in 1..Len(watch_list) : watch_list[j] = G1
          /\ procs' = <<n_Game1_EXE>> )
        => events' = << GameActivity("Game One", Some(n_game1), TRUE) >> ]_vars

-----------------------------------------------------------------------------
C8_HasSuffix(s) ==
    /\ Len(s) >= Len(DotExe)
    /\ eq_ignore_ascii_case(SubSeq(s, Len(s) - Len(DotExe) + 1, Len(s)), DotExe)

C8_Stripped(s) ==
    IF C8_HasSuffix(s) THEN SubSeq(s, 1, Len(s) - Len(DotExe)) ELSE s

C8_ClaimedMatch(exe_name, process_name) ==
    eq_ignore_ascii_case(C8_Stripped(exe_name), C8_Stripped(process_name))

\* C8: a process matches a signature executable whenever the two names are
\* equal ignoring letter case once a trailing ".exe" suffix (in any letter
\* case) is removed from each; the result is the same for every os tag of
\* the executable entry; a signature with null executables never matches.
C8_MatchIgnoresCaseSuffixAndOs ==
    ( /\ m_out # None
      /\ Len(m_list) = 1
      /\ Len(m_procs) = 1 )
    => LET game == m_list[1]
       IN  IF game.executables = None
           THEN m_out[1].name = None
           ELSE LET exe == game.executables[1][1]
                IN  /\ C8_ClaimedMatch(exe.name, m_procs[1])
                          => m_out[1].name = Some(game.name)
                    /\ \A os \in OsTags :
                          Detect(<< [game EXCEPT !.executables =
                                        Some(<<GameExecutable(os, exe.name)>>)] >>,
                                 m_procs) = m_out[1]

-----------------------------------------------------------------------------
\* C9: set_scanner_enabled emits nothing and leaves current_game alone, and
\* so does every step of the task but the end of a scan cycle: Some(A) is
\* kept while the scanner is disabled.  A scan cycle (the first after a
\* re-enable included) emits an event exactly when its result differs from
\* the kept value: stopped(A) when nothing is detected, started(B) for B.
C9_DisableKeepsActiveGame ==
    [][ /\ CmdStep => UNCHANGED <<events, current_game, followed>>
        /\ ~ScanStep => UNCHANGED <<events, current_game, followed>>
        /\ ScanStep =>
             /\ (events' # events) <=> (current_game' # current_game)
             /\ (current_game # None /\ current_game' = None)
                   => Kinds(NewEvents) = << stopped(current_game[1]) >>
             /\ (current_game # None /\ current_game' # None
                     /\ current_game' # current_game)
                   => Kinds(NewEvents) = << started(current_game'[1]) >>
             /\ current_game' = current_game => NewEvents = << >> ]_vars

\* The scanner was disabled after Game One was detected: the task waits in
\* Idle and Some(Game One) is still stored.
C9_Witness ==
    /\ pc = "idle_wait"
    /\ ~is_enabled
    /\ flips = 2
    /\ current_game = Some("Game One")
    /\ Kinds(events) = << started("Game One") >>

-----------------------------------------------------------------------------
C10_FromCatalog(e, list) ==
    /\ e.executable_name # None
    /\ \E j \in 1..Len(list) :
          /\ list[j].name = e.name
          /\ list[j].executables # None
          /\ \E k \in 1..Len(list[j].executables[1]) :
                list[j].executables[1][k].name = e.executable_name[1]

\* C10: every emitted payload is well formed.  With is_running = true its
\* executable_name is the name of an executable entry of a catalog signature
\* with the payload's name, and that entry matched a running process; with
\* is_running = false its executable_name is null and its name is the
\* previously active one.
C10_EventsWellFormed ==
    /\ [](\A i \in 1..Len(events) :
            IF events[i].is_running
            THEN C10_FromCatalog(events[i], watch_list)
            ELSE events[i].executable_name = None)
    /\ [][ ScanStep =>
             \A i \in 1..Len(NewEvents) :
                LET e == NewEvents[i]
                IN  IF e.is_running
                    THEN /\ C10_FromCatalog(e, watch_list)
                         /\ \E p \in 1..Len(procs') :
                               Matches(e.executable_name[1], procs'[p])
                         /\ current_game' = Some(e.name)
                    ELSE /\ e.executable_name = None
                         /\ current_game = Some(e.name)
                         /\ current_game' = None ]_vars

\* A started payload whose executable_name keeps the catalog's suffix, then
\* the stopped payload of the same game.
C10_Witness ==
    /\ Len(events) = 2
    /\ events[1] = GameActivity("Game Two", Some(n_Foo_exe), TRUE)
    /\ events[2] = GameActivity("Game Two", None, FALSE)

-----------------------------------------------------------------------------
\* Some process of `processes` matches an executable of `game`.
C11_Runs(game, processes) ==
    \E i \in 1..Len(processes) : FirstExe(game, processes[i]) # 0

\* C11: when running processes match two or more different signatures of
\* the catalog, the detection result is the matching signature that comes
\* earliest in the catalog, in whatever order the processes are enumerated.
C11_TieGoesToEarliestInCatalog ==
    m_out # None =>
       LET running == { j \in 1..Len(m_list) : C11_Runs(m_list[j], m_procs) }
       IN  Cardinality(running) >= 2
              => m_out[1].name = Some(m_list[Min(running)].name)

-----------------------------------------------------------------------------
\* The set of process names of an enumeration.
C12_Names(processes) == { processes[i] : i \in 1..Len(processes) }

\* C12: a scan cycle that follows a completed one and finds the same set of
\* running process names (the catalog never changes once fetched) emits no
\* event and leaves current_game as it is, in whatever order the processes
\* were enumerated in either cycle.
C12_SameProcessesNoEvent ==
    [][ ( /\ ScanStep
          /\ followed # 0
          /\ watch_list' = watch_list
          /\ C12_Names(procs') = C12_Names(procs) )
        => /\ events' = events
           /\ current_game' = current_game ]_vars

-----------------------------------------------------------------------------
\* C13: the flag starts false, and a scan cycle starts only from the read of
\* the flag at the top of the loop, when that read sees true.  A cycle that
\* has started runs to its end whatever happens to the flag meanwhile:
\* matching, emission and the store of the result.  Then the bounded wait
\* returns, the flag is read again, and a false flag sends the task to the
\* Idle wait, which it leaves only towards another read.  The task is at one
\* place at a time, so cycles do not overlap.
C13_CycleStartsOnEnabledReadAndCompletes ==
    /\ [](flips = 0 => ~is_enabled)
    /\ [](pc = "timed_wait" => ENABLED (LoopWaitWake \/ LoopWaitTimeout))
    /\ [][ /\ (pc' = "scan" /\ pc # "scan")
                 => (pc = "check" /\ is_enabled /\ ~is_enabled_locked)
           /\ (pc = "check" /\ pc' # pc)
                 => pc' = IF is_enabled THEN "scan" ELSE "idle"
           /\ (pc = "scan" /\ is_enabled' # is_enabled) => pc' = "scan"
           /\ (pc = "scan" /\ pc' # pc)
                 => /\ pc' = "wait"
                    /\ current_game' = Detect(watch_list, procs').name
                    /\ events' = events \o Emitted(current_game,
                                                   Detect(watch_list, procs'))
           /\ (pc = "wait" /\ pc' # pc) => pc' \in {"check", "timed_wait"}
           /\ (pc = "timed_wait" /\ pc' # pc) => pc' = "check"
           /\ (pc = "idle" /\ pc' # pc) => pc' \in {"check", "idle_wait"}
           /\ (pc = "idle_wait" /\ pc' # pc) => pc' = "check" ]_vars

\* A call has set the flag to false after the task read it as true: the
\* cycle of that read is still to run, on a stored Some(Game One).
C13_Witness ==
    /\ pc = "scan"
    /\ ~is_enabled
    /\ cmd_pc = "idle"
    /\ flips = 2
    /\ permit
    /\ current_game = Some("Game One")

-----------------------------------------------------------------------------
\* The task polls a wait for the first time (line 108 or line 201).
C14_PollStep == pc \in {"idle", "wait"} /\ pc' # pc

\* C14: the Notify remembers at most one wake.  While the task is not
\* suspended in a wait no waiter is released, and every notify_one leaves
\* just the one stored permit, however many came before it.  The next wait
\* consumes the permit and returns at once; a wait that finds no permit
\* blocks, and a blocked wait ends only by a notify_one made after it
\* blocked (a new flip) or, for the bounded wait, by the timer.
C14_AtMostOnePendingWake ==
    /\ [](~Waiting => ~woken)
    /\ [][ /\ (wakes' # wakes /\ ~Waiting)
                 => (permit' /\ ~woken' /\ pc' = pc)
           /\ (wakes' # wakes /\ Waiting)
                 => (woken' /\ permit' = (permit \/ woken))
           /\ C14_PollStep
                 => IF permit
                    THEN ~permit' /\ pc' = "check"
                    ELSE ~permit' /\ ~woken'
                         /\ pc' = (IF pc = "idle" THEN "idle_wait" ELSE "timed_wait")
           /\ (~C14_PollStep /\ permit /\ ~permit') => FALSE
           /\ (~woken /\ woken') => (wakes' = wakes + 1 /\ flips = wakes')
           /\ (pc = "idle_wait" /\ pc' # pc) => (woken /\ ~woken')
           /\ (pc = "timed_wait" /\ pc' # pc) => ~woken' ]_vars

\* Three notify_one calls were made while the task was not suspended, one
\* wait returned early, and the wait after the first cycle blocks.
C14_Witness ==
    /\ pc = "timed_wait"
    /\ ~woken
    /\ ~permit
    /\ wakes = 3
    /\ followed = 1

-----------------------------------------------------------------------------
\* Some process of `processes` matches an executable of a signature of
\* `list` whose name is `x`.
C15_MatchedBy(x, list, processes) ==
    \E j \in 1..Len(list) :
       /\ list[j].name = x
       /\ \E i \in 1..Len(processes) : FirstExe(list[j], processes[i]) # 0

\* C15: current_game is Some(x) only if the most recent completed scan cycle
\* matched one of its processes to a signature x of the catalog, and None
\* only if no cycle has completed or the most recent one matched no process
\* to any signature.  Only the end of a scan cycle writes it, with the
\* detection result of that cycle.
C15_ActiveGameIsLastResult ==
    /\ [](current_game # None
             => /\ followed # 0
                /\ C15_MatchedBy(current_game[1], watch_list, procs))
    /\ [](current_game = None
             => \/ followed = 0
                \/ \A j \in 1..Len(watch_list) :
                      \A i \in 1..Len(procs) : FirstExe(watch_list[j], procs[i]) = 0)
    /\ [][ /\ current_game' # current_game => ScanStep
           /\ ScanStep => current_game' = Detect(watch_list, procs').name ]_vars

\* The most recent cycle found no process at all after Game Two had been
\* active: None is stored again.
C15_Witness ==
    /\ pc = "timed_wait"
    /\ current_game = None
    /\ procs = <<>>
    /\ Kinds(events) = << started("Game Two"), stopped("Game Two") >>

-----------------------------------------------------------------------------
\* Index in `list` of the signature the loops of lines 127-151 stop at,
\* 0 when they run to their end.
C16_Matched(list, processes) ==
    LET hits == { i \in 1..Len(processes) : FirstGame(list, processes[i]) # 0 }
    IN  IF hits = {} THEN 0 ELSE FirstGame(list, processes[Min(hits)])

\* C16: when the signature matched by a scan cycle has another id than the
\* signature matched by the cycle before it, the cycle emits exactly one
\* event, started for the new signature, and current_game designates the new
\* signature; also when the two signatures carry the same display name.
C16_SwitchEmitsStartedForNewId ==
    [][ ( /\ ScanStep
          /\ followed # 0
          /\ C16_Matched(watch_list, procs) # 0
          /\ C16_Matched(watch_list, procs') # 0
          /\ watch_list[C16_Matched(watch_list, procs)].id
                # watch_list[C16_Matched(watch_list, procs')].id )
        => LET y == watch_list[C16_Matched(watch_list, procs')]
           IN  /\ Kinds(NewEvents) = << started(y.name) >>
               /\ current_game' = Some(y.name) ]_vars

-----------------------------------------------------------------------------
\* C17: a failed emit_all changes nothing else.  The cycle stores its
\* detection result and goes on to the bounded wait exactly as after a
\* successful emission; the wait and the following read of the flag are not
\* held up; and a later cycle with the same result emits nothing, so the
\* failed payload is not sent again.
C17_FailedEmitIsSwallowed ==
    /\ [](emit_result = Some(FALSE) =>
            /\ events # <<>>
            /\ pc = "wait" => ENABLED LoopWait
            /\ pc = "timed_wait" => ENABLED (LoopWaitWake \/ LoopWaitTimeout)
            /\ (pc = "check" /\ cmd_pc = "idle") => ENABLED LoopCheck)
    /\ [][ /\ (ScanStep /\ emit_result' = Some(FALSE))
                 => /\ current_game' = Detect(watch_list, procs').name
                    /\ current_game' # current_game
                    /\ Len(events') = Len(events) + 1
                    /\ pc' = "wait"
                    /\ UNCHANGED <<watch_list, is_enabled, permit, woken>>
           /\ (ScanStep /\ emit_result = Some(FALSE) /\ current_game' = current_game)
                 => /\ events' = events
                    /\ emit_result' = None
           /\ (~ScanStep /\ emit_result = Some(FALSE))
                 => UNCHANGED <<current_game, events, emit_result>> ]_vars

\* The started payload of Game One could not be emitted; the task went
\* through the wait and the read of the flag and is about to scan again.
C17_Witness ==
    /\ pc = "scan"
    /\ emit_result = Some(FALSE)
    /\ current_game = Some("Game One")
    /\ Kinds(events) = << started("Game One") >>

-----------------------------------------------------------------------------
\* The task is suspended in the Idle wait, the flag is true, and neither a
\* stored permit nor a released waiter will end the wait.
C18_IdleWithoutWake ==
    /\ pc = "idle_wait"
    /\ is_enabled
    /\ ~woken
    /\ ~permit

\* The flag is true and no wait on the timer alone lies ahead of the task:
\* it is not in the bounded wait, or a wake is there to end that wait.
C18_EnabledAndDue ==
    /\ ~AwaitingCatalog
    /\ is_enabled
    /\ cmd_pc = "idle"
    /\ pc = "wait" => permit
    /\ pc = "timed_wait" => woken

\* C18 as stated: in no reachable state is the task blocked in the Idle wait
\* while the flag is true and no wake is pending.
C18_NeverIdleWhileEnabled == ~C18_IdleWithoutWake

\* C18 amended: the task is blocked in the Idle wait with the flag true and
\* no wake pending only while a set_scanner_enabled call stands between its
\* assignment and its notify_one; so under fair scheduling, with the catalog
\* fetched, a true flag leads to a scan cycle (unless the flag is set to
\* false first), and the 15 s timer is not needed for it.
C18_NoLostWakeup ==
    /\ [](C18_IdleWithoutWake => cmd_pc = "assigned")
    /\ C18_EnabledAndDue ~> (pc = "scan" \/ ~is_enabled)

\* The flag was set to true between the task's read of it (false) and the
\* start of the Idle wait: the permit is stored for the wait to consume.
C18_Witness ==
    /\ pc = "idle"
    /\ is_enabled
    /\ permit
    /\ cmd_pc = "idle"
    /\ flips = 1

-----------------------------------------------------------------------------
\* The value the payloads passed to emit_all so far stand for: Some(n) after
\* a last payload started(n), None after a stopped one or after none at all.
C19_Told(es) ==
    IF es = <<>> THEN None
    ELSE IF es[Len(es)].is_running THEN Some(es[Len(es)].name)
    ELSE None

\* C19: between scan cycles current_game agrees with the payloads passed to
\* emit_all: it is Some(n) exactly when the last one is started(n), and None
\* exactly when there is none or the last one is a stopped payload.  So a
\* stopped(n) payload comes directly after started(n), and never after
\* another stopped payload.
C19_StateAgreesWithEvents ==
    /\ current_game = C19_Told(events)
    /\ \A i \in 1..Len(events) :
          ~events[i].is_running
             => /\ i > 1
                /\ Kind(events[i - 1]) = started(events[i].name)

\* Game Two, then Game One, then nothing: the stopped payload names the game
\* started last.
C19_Witness ==
    /\ pc = "wait"
    /\ current_game = None
    /\ Kinds(events) = << started("Game Two"), started("Game One"),
                          stopped("Game One") >>

-----------------------------------------------------------------------------
\* `s` without one trailing ".exe", if it has one.
C20_StripOnce(s) ==
    IF ends_with(s, DotExe) THEN SubSeq(s, 1, Len(s) - Len(DotExe)) ELSE s

\* C20: at most one trailing ".exe" is removed from the executable name and
\* from the process name before they are compared: a process matches only
\* when the names so stripped are equal ignoring case, and the process
\* "foo.exe.exe" does not match the executable "foo".
C20_OneSuffixStripped ==
    ( /\ m_out # None
      /\ Len(m_list) = 1
      /\ Len(m_procs) = 1
      /\ m_list[1].executables # None )
    => LET exe == m_list[1].executables[1][1]
       IN  /\ m_out[1].name # None
                 => eq_ignore_ascii_case(C20_StripOnce(exe.name),
                                         C20_StripOnce(m_procs[1]))
           /\ (exe.name = n_foo /\ m_procs[1] = n_foo_exe_exe)
                 => m_out[1].name = None

====
